---------------------------- MODULE Spec2Model ----------------------------
(***************************************************************************)
(* Lazy virtual stack over a set of multi-page TIFF files and a simple     *)
(* slider-driven browser over it, as written in                            *)
(* docs/80_image_analysis_with_dask/3_lazy_image_processing.ipynb          *)
(* (Practical 3), together with the block-wise filtering of Practical 2.   *)
(*                                                                         *)
(* A path is a sequence of character codes, a plane is a sequence of pixel *)
(* values (the two spatial axes flattened), a file is a sequence of        *)
(* planes.  Indices t, z are 0-based as in the notebook; TLA+ sequences    *)
(* are 1-based, hence the "+ 1" where a Python list is indexed.            *)
(***************************************************************************)
EXTENDS Integers, Sequences, FiniteSets, TLC

\* ------------------------------------------------------------------ bounds
\* largest number of files the pattern matches
MaxFiles == 2
\* pages (planes) per file
NZ == 2
\* largest region (in planes) of a compute() that runs beside another one
MaxCells == 2
\* pixels of the image filtered block-wise, and its largest pixel value
NPix == 4
MaxVal == 1
\* largest radius of the filter and largest depth of the overlap
MaxRadius == 2
\* largest number of scroll axes of an array given to browse_images, and
\* the extent of each of them
MaxAxes == 11
AxisExtent == 2

\* ------------------------------------------------------------ file system
\* candidate file names matching 'data/large_3d_dataset_tp*.tif', written as
\* the digits that replace the '*': "1", "10", "2"
PathUniverse == {<<1>>, <<1, 0>>, <<2>>}

\* the per-plane shapes (height, width) and element types a file may have
Shapes == {<<1, 2>>, <<1, 1>>}
DTypes == {"uint16", "uint8"}

VARIABLES
    fs,         \* file system: matched path -> [shape, dtype] (file header)
    disk,       \* pixel payload: matched path -> sequence of NZ planes
    globOrder,  \* the order in which glob() enumerates the matched paths
    pc,         \* notebook position: "start", "scanned", "described",
                \*   "built", "failed"
    err,        \* the exception that stopped the notebook, or "none"
    files,      \* files = sorted(glob(file_pattern))
    desc,       \* N_t, N_z, N_x, N_y, dtype read from zarr_arr
    ims,        \* the stacked dask array, or NoVolume
    ims_max,    \* ims.max(1), or NoVolume
    calls,      \* one record per compute() caller
    browser,    \* the sliders and the figure of browse_images(ims)
    ov          \* Practical 2: img, img_da, filtered_overlap and its compute

vars ==
    <<fs, disk, globOrder, pc, err, files, desc, ims, ims_max, calls, browser,
      ov>>

NoVolume == [shape |-> <<0, 0, 0, 0>>, dtype |-> "none", graph |-> <<>>]
NoDesc == [N_t |-> 0, N_z |-> 0, N_x |-> 0, N_y |-> 0, dtype |-> "none"]

\* ------------------------------------------------------------- sequences
Range(s) == {s[i] : i \in DOMAIN s}

Perms(S) == {s \in [1..Cardinality(S) -> S] : Range(s) = S}

Min2(a, b) == IF a < b THEN a ELSE b
Max2(a, b) == IF a > b THEN a ELSE b

\* Python's str comparison: first differing character decides, a proper
\* prefix is smaller
RECURSIVE LexLess(_, _)
LexLess(a, b) ==
    IF b = <<>> THEN FALSE
    ELSE IF a = <<>> THEN TRUE
    ELSE IF Head(a) # Head(b) THEN Head(a) < Head(b)
    ELSE LexLess(Tail(a), Tail(b))

\* insert x into the sorted sequence s
RECURSIVE Insert(_, _)
Insert(x, s) ==
    IF s = <<>> THEN <<x>>
    ELSE IF LexLess(x, Head(s)) THEN <<x>> \o s
    ELSE <<Head(s)>> \o Insert(x, Tail(s))

\* the identity: keeps the enumeration order of glob()
unsorted(s) == s

\* sorted(list of str)
RECURSIVE sorted(_)
sorted(s) == IF s = <<>> THEN <<>> ELSE Insert(Head(s), sorted(Tail(s)))

\* ------------------------------------------------------------------ data
\* the synthetic dataset: every plane of every file has its own pixel value
PathNum(p) == IF Len(p) = 1 THEN p[1] ELSE 10 * p[1] + p[2]

\* a plane is stored row after row
PlaneOf(p, z, shape) ==
    [i \in 1..(shape[1] * shape[2]) |-> 100 * PathNum(p) + 10 * z + i]

\* the header and the payload of the matched files agree
DiskOf(f) ==
    [p \in DOMAIN f |-> [z \in 1..f[p].pages |-> PlaneOf(p, z - 1, f[p].shape)]]

\* a dataset whose brightest plane differs from file to file and from pixel
\* to pixel: pixel i of file p is brightest in plane (b[p] + i) % pages
DiskBright(f, b) ==
    [p \in DOMAIN f |->
        [z \in 1..f[p].pages |->
            [i \in 1..(f[p].shape[1] * f[p].shape[2]) |->
                100 * PathNum(p) + 10 * i
                    + (IF z - 1 = (b[p] + i) % f[p].pages THEN 9 ELSE z - 1)]]]

Metas == [shape : Shapes, dtype : DTypes, pages : {NZ}]
UniformMeta == [shape |-> <<1, 2>>, dtype |-> "uint16", pages |-> NZ]

MatchSets == {S \in SUBSET PathUniverse : Cardinality(S) <= MaxFiles}

\* --------------------------------------------------------- compute callers
\* two notebook-level callers and the viewer callback
Callers == {"c1", "c2", "ui"}

NoRegion == [t0 |-> 0, t1 |-> -1, z0 |-> 0, z1 |-> -1]
NoCall ==
    [state |-> "idle", vol |-> "none", region |-> NoRegion, pending |-> {}, buf |-> <<>>,
     io |-> <<>>, result |-> <<>>, again |-> FALSE]

NoBrowser ==
    [state |-> "Detached", pos |-> <<>>, request |-> <<>>, shown |-> <<>>,
     shownPos |-> <<>>, error |-> "none"]

\* ------------------------------------------------------------ Frame scan
\* files = sorted(glob(file_pattern))
Scan ==
    /\ pc = "start"
    /\ files' = sorted(globOrder)
    /\ pc' = "scanned"
    /\ UNCHANGED <<fs, disk, globOrder, err, desc, ims, ims_max, calls, browser, ov>>

\* tifffile.imread(file_pattern, aszarr=True) globs the pattern itself and
\* raises ValueError('no files found') when nothing matches
DescribeNone ==
    /\ pc = "scanned"
    /\ DOMAIN fs = {}
    /\ pc' = "failed"
    /\ err' = "NoFilesFound"
    /\ UNCHANGED <<fs, disk, globOrder, files, desc, ims, ims_max, calls, browser, ov>>

\* a single match is opened as one file, its array is (N_z, N_x, N_y) and
\* "N_t, N_z, N_x, N_y = zarr_arr.shape" cannot unpack three values
DescribeOne ==
    /\ pc = "scanned"
    /\ Cardinality(DOMAIN fs) = 1
    /\ pc' = "failed"
    /\ err' = "ValueError"
    /\ UNCHANGED <<fs, disk, globOrder, files, desc, ims, ims_max, calls, browser, ov>>

\* shape and dtype of a file sequence: the number of files, and the shape
\* and dtype found in the header of the first file of the sequence; the
\* headers of the other files are not compared with it
ShapeOfSequence(f, first) ==
    [N_t |-> Cardinality(DOMAIN f), N_z |-> f[first].pages,
     N_x |-> f[first].shape[1], N_y |-> f[first].shape[2],
     dtype |-> f[first].dtype]

Describe ==
    /\ pc = "scanned"
    /\ Cardinality(DOMAIN fs) >= 2
    /\ \E first \in DOMAIN fs : desc' = ShapeOfSequence(fs, first)
    /\ pc' = "described"
    /\ UNCHANGED <<fs, disk, globOrder, err, files, ims, ims_max, calls, browser, ov>>

\* ----------------------------------------------------------- Lazy volume
\* load_2d(t, z): page z of the t-th entry of the list files
load_2d(t, z) == disk[files[t + 1]][z + 1]

\* the file and page load_2d(t, z) opens, and whether the read succeeded
load_2d_io(t, z, ok) == [file |-> files[t + 1], page |-> z, ok |-> ok]

\* da.stack([da.stack([from_delayed(load_2d(t, z)) for z]) for t]):
\* chunk (t, z) of the array is the delayed call load_2d(t, z)
StackTransposed(d) ==
    [shape |-> <<d.N_t, d.N_z, d.N_x, d.N_y>>, dtype |-> d.dtype,
     graph |-> [t \in 0..(d.N_t - 1) |->
                    [z \in 0..(d.N_z - 1) |-> <<z % d.N_t, t % d.N_z>>]]]

Stack(d) ==
    [shape |-> <<d.N_t, d.N_z, d.N_x, d.N_y>>, dtype |-> d.dtype,
     graph |-> [t \in 0..(d.N_t - 1) |->
                    [z \in 0..(d.N_z - 1) |-> <<t, z>>]]]

Build ==
    /\ pc = "described"
    /\ ims' = Stack(desc)
    /\ pc' = "built"
    /\ UNCHANGED <<fs, disk, globOrder, err, files, desc, ims_max, calls, browser, ov>>

\* rectangular regions over the two chunked axes of a volume; the spatial
\* axes are always taken whole (one chunk spans a whole plane)
Regions(v) ==
    {r \in [t0 : 0..(v.shape[1] - 1), t1 : 0..(v.shape[1] - 1),
            z0 : 0..(v.shape[2] - 1), z1 : 0..(v.shape[2] - 1)] :
        r.t0 <= r.t1 /\ r.z0 <= r.z1}

Cells(r) == {<<t, z>> : t \in r.t0..r.t1, z \in r.z0..r.z1}

\* the tasks of the graph a region needs: the chunks it intersects
TasksWholeFile(v, r) ==
    {v.graph[t][z] : t \in r.t0..r.t1, z \in 0..(v.shape[2] - 1)}

TasksFor(v, r) == {v.graph[k[1]][k[2]] : k \in Cells(r)}

\* the entry of the scheduler's result table for task k
Lookup(buf, k) ==
    IF \E i \in DOMAIN buf : buf[i][1] = k
    THEN buf[CHOOSE i \in DOMAIN buf : buf[i][1] = k][2]
    ELSE <<>>

NT(r) == r.t1 - r.t0 + 1
NZr(r) == r.z1 - r.z0 + 1

\* places the results in the order in which the reads finished
AssembleByCompletion(v, r, buf) ==
    [t \in 0..(NT(r) - 1) |->
        [z \in 0..(NZr(r) - 1) |->
            IF t * NZr(r) + z + 1 \in DOMAIN buf
            THEN buf[t * NZr(r) + z + 1][2] ELSE <<>>]]

\* the output array: block (t, z) of the region is the result of the task
\* of chunk (r.t0 + t, r.z0 + z)
Assemble(v, r, buf) ==
    [t \in 0..(NT(r) - 1) |->
        [z \in 0..(NZr(r) - 1) |->
            Lookup(buf, v.graph[r.t0 + t][r.z0 + z])]]

\* one result table for all calls
TableShared(c) == "c1"

\* every call of compute() fills a result table of its own
TableOf(c) == c

\* the call record of a compute() just started
Started(r, again) ==
    [state |-> "running", vol |-> "ims", region |-> r,
     pending |-> TasksFor(ims, r),
     buf |-> <<>>, io |-> <<>>, result |-> <<>>, again |-> again]

\* ims[region].compute(): a fresh call with an empty result table
StartCompute(c, r) ==
    /\ pc = "built"
    /\ calls[c].state = "idle"
    /\ r \in Regions(ims)
    /\ calls' = [calls EXCEPT ![c] = Started(r, FALSE),
                              ![TableOf(c)].buf = <<>>]
    /\ UNCHANGED <<fs, disk, globOrder, pc, err, files, desc, ims, ims_max, browser, ov>>

\* a worker runs one pending task to its end
ReadOk(c, k) ==
    /\ calls[c].state = "running"
    /\ k \in calls[c].pending
    /\ calls' = [calls EXCEPT
                    ![c].pending = @ \ {k},
                    ![c].io = Append(@, load_2d_io(k[1], k[2], TRUE)),
                    ![TableOf(c)].buf = Append(@, <<k, load_2d(k[1], k[2])>>)]
    /\ UNCHANGED <<fs, disk, globOrder, pc, err, files, desc, ims, ims_max, browser, ov>>

\* the failed task is left pending, to be run again
OnErrorRetry(call, k) == call

\* the scheduler re-raises the exception of task k in the caller: nothing is
\* returned and no further task of the call is started
OnError(call, k) == [call EXCEPT !.state = "failed", !.pending = {}]

\* the read of a pending task raises
ReadFail(c, k) ==
    /\ calls[c].state = "running"
    /\ k \in calls[c].pending
    /\ calls' = [calls EXCEPT
                    ![c] = OnError(@, k),
                    ![c].io = Append(@, load_2d_io(k[1], k[2], FALSE)),
                    ![TableOf(c)].buf = <<>>]
    /\ UNCHANGED <<fs, disk, globOrder, pc, err, files, desc, ims, ims_max, browser, ov>>

\* waits for one result more than the call has tasks
GatheredOneMore(call) ==
    call.pending = {} /\ Len(call.io) > Cardinality(Cells(call.region))

\* all tasks of the call have finished
Gathered(call) == call.pending = {}

\* the scheduler hands the assembled array to the caller
Finish(c) ==
    /\ calls[c].state = "running"
    /\ calls[c].vol = "ims"
    /\ Gathered(calls[c])
    /\ calls' = [calls EXCEPT
                    ![c].state = "done",
                    ![c].result = Assemble(ims, calls[c].region,
                                           calls[TableOf(c)].buf),
                    ![TableOf(c)].buf = <<>>]
    /\ UNCHANGED <<fs, disk, globOrder, pc, err, files, desc, ims, ims_max, browser, ov>>

\* the caller computes the region it has just computed once more, as the
\* repetitions of %%timeit do
Recompute(c) ==
    /\ calls[c].state = "done"
    /\ calls[c].vol = "ims"
    /\ calls' = [calls EXCEPT ![c] = Started(calls[c].region, TRUE),
                              ![TableOf(c)].buf = <<>>]
    /\ UNCHANGED <<fs, disk, globOrder, pc, err, files, desc, ims, ims_max, browser, ov>>

\* the caller drops the materialized slice (or the exception)
Release(c) ==
    /\ calls[c].state \in {"done", "failed"}
    /\ calls' = [calls EXCEPT ![c] = NoCall]
    /\ UNCHANGED <<fs, disk, globOrder, pc, err, files, desc, ims, ims_max, browser, ov>>

\* ------------------------------------------------------------ projection
\* a negative axis of a 4-axis array taken as the axis itself
NormAxisAbs(axis, ndim) == IF axis < 0 THEN -axis ELSE axis

\* a negative axis counts from the last axis
NormAxis(axis, ndim) == IF axis < 0 THEN axis + ndim ELSE axis

\* v.max(axis) for axis 0 (time) or 1 (depth) of the stacked array: a new
\* array without that axis; its chunk i is reduced from the chunks of v
\* that differ only in their index along the axis
MaxOver(v, axis) ==
    IF NormAxis(axis, 4) = 1
    THEN [shape |-> <<v.shape[1], v.shape[3], v.shape[4]>>, dtype |-> v.dtype,
          graph |-> [t \in 0..(v.shape[1] - 1) |->
                        {v.graph[t][z] : z \in 0..(v.shape[2] - 1)}]]
    ELSE [shape |-> <<v.shape[2], v.shape[3], v.shape[4]>>, dtype |-> v.dtype,
          graph |-> [z \in 0..(v.shape[2] - 1) |->
                        {v.graph[t][z] : t \in 0..(v.shape[1] - 1)}]]

\* ims.max(-3) and ims.max(1)
ProjectionAxes == {-3, 1}

Project(axis) ==
    /\ pc = "built"
    /\ ims_max = NoVolume
    /\ ims_max' = MaxOver(ims, axis)
    /\ UNCHANGED <<fs, disk, globOrder, pc, err, files, desc, ims, calls, browser, ov>>

\* regions of the projection: a range of its leading axis and a range of
\* the pixels of a row (the planes of this model have one row)
MaxRegions(v) ==
    {r \in [t0 : 0..(v.shape[1] - 1), t1 : 0..(v.shape[1] - 1),
            x0 : 0..(v.shape[3] - 1), x1 : 0..(v.shape[3] - 1)] :
        r.t0 <= r.t1 /\ r.x0 <= r.x1}

SetMax(S) == CHOOSE m \in S : \A n \in S : n <= m

\* element-wise maximum of a set of planes of n pixels
PointMax(planes, n) ==
    [i \in 1..n |-> SetMax({IF i \in DOMAIN q THEN q[i] ELSE -1 : q \in planes})]

Crop(plane, x0, x1) == [i \in 0..(x1 - x0) |-> plane[x0 + i + 1]]

\* ims_max[region].compute()
StartMax(c, r) ==
    /\ pc = "built"
    /\ ims_max # NoVolume
    /\ calls[c].state = "idle"
    /\ r \in MaxRegions(ims_max)
    /\ calls' = [calls EXCEPT
                    ![c] = [state |-> "running", vol |-> "ims_max",
                            region |-> r,
                            pending |-> UNION {ims_max.graph[t] : t \in r.t0..r.t1},
                            buf |-> <<>>, io |-> <<>>, result |-> <<>>,
                            again |-> FALSE],
                    ![TableOf(c)].buf = <<>>]
    /\ UNCHANGED <<fs, disk, globOrder, pc, err, files, desc, ims, ims_max, browser, ov>>

\* the reduced and sliced array is handed to the caller
FinishMax(c) ==
    /\ calls[c].state = "running"
    /\ calls[c].vol = "ims_max"
    /\ Gathered(calls[c])
    /\ LET r == calls[c].region
           n == ims_max.shape[2] * ims_max.shape[3]
           table == calls[TableOf(c)].buf
       IN  calls' = [calls EXCEPT
                ![c].state = "done",
                ![c].result =
                    [t \in 0..(r.t1 - r.t0) |->
                        Crop(PointMax({Lookup(table, k) :
                                        k \in ims_max.graph[r.t0 + t]}, n),
                             r.x0, r.x1)],
                ![TableOf(c)].buf = <<>>]
    /\ UNCHANGED <<fs, disk, globOrder, pc, err, files, desc, ims, ims_max, browser, ov>>

\* ------------------------------------------------- block-wise filtering
NoOverlap ==
    [img |-> <<>>, chunk |-> 1, radius |-> 0, depth |-> 0, state |-> "idle",
     region |-> <<1, 0>>, todo |-> {}, parts |-> <<>>, out |-> <<>>]

\* the slice a[lo-1:hi] of Python: the elements lo..hi counted from 1, as
\* far as the array has them
Sub(a, lo, hi) ==
    [i \in 1..(Min2(hi, Len(a)) - Max2(lo, 1) + 1) |-> a[Max2(lo, 1) + i - 1]]

\* the blocks b..last one after the other
RECURSIVE ConcatBlocks(_, _, _)
ConcatBlocks(parts, b, last) ==
    IF b > last THEN <<>> ELSE parts[b] \o ConcatBlocks(parts, b + 1, last)

Abs(d) == IF d < 0 THEN -d ELSE d

\* weight of the neighbour at offset d of a symmetric kernel of radius r
Weight(d, r) == r + 1 - Abs(d)

\* sum over the offsets d..r of the weighted neighbours of a[i]; a
\* neighbour outside the array counts as 0 (mode='constant')
RECURSIVE Weighted(_, _, _, _)
Weighted(a, i, d, r) ==
    IF d > r THEN 0
    ELSE (IF i + d \in DOMAIN a THEN Weight(d, r) * a[i + d] ELSE 0)
            + Weighted(a, i, d + 1, r)

\* the filter applied to an array as a whole
Filter(a, r) == [i \in DOMAIN a |-> Weighted(a, i, -r, r)]

\* da.from_array(img, chunks=c): blocks 1..NBlocks of c pixels, the last
\* one shorter
NBlocks(n, c) == (n + c - 1) \div c
BlockLo(b, c) == (b - 1) * c + 1
BlockHi(b, c, n) == Min2(b * c, n)
BlockOf(i, c) == (i - 1) \div c + 1

\* the input of block b with its overlap: depth m more on either side, as
\* far as the array goes
ExtLo(b, c, m) == Max2(1, BlockLo(b, c) - m)
ExtHi(b, c, m, n) == Min2(n, BlockHi(b, c, n) + m)

\* cuts depth m from either end of the filtered block
TrimDepth(fa, b, c, m, n) == Sub(fa, m + 1, Len(fa) - m)

\* cuts from the filtered block what the overlap added: the part of block b
TrimOverlap(fa, b, c, m, n) ==
    Sub(fa, BlockLo(b, c) - ExtLo(b, c, m) + 1,
            BlockHi(b, c, n) - ExtLo(b, c, m) + 1)

\* one task of map_overlap: overlap, filter, trim
MapOverlapBlock(img, b, c, m, r) ==
    TrimOverlap(
        Filter(Sub(img, ExtLo(b, c, m), ExtHi(b, c, m, Len(img))), r),
        b, c, m, Len(img))

\* filtered_overlap[x0-1:x1].compute(): the blocks the region meets
StartOverlap(x0, x1) ==
    /\ ov.state = "idle"
    /\ x0 <= x1
    /\ ov' = [ov EXCEPT !.state = "running", !.region = <<x0, x1>>,
                        !.todo = BlockOf(x0, ov.chunk)..BlockOf(x1, ov.chunk),
                        !.parts = <<>>, !.out = <<>>]
    /\ UNCHANGED <<fs, disk, globOrder, pc, err, files, desc, ims, ims_max,
                   calls, browser>>

\* a worker runs the task of one block
OverlapBlock(b) ==
    /\ ov.state = "running"
    /\ b \in ov.todo
    /\ ov' = [ov EXCEPT
                !.todo = @ \ {b},
                !.parts = [k \in DOMAIN @ \cup {b} |->
                             IF k = b
                             THEN MapOverlapBlock(ov.img, b, ov.chunk,
                                                  ov.depth, ov.radius)
                             ELSE @[k]]]
    /\ UNCHANGED <<fs, disk, globOrder, pc, err, files, desc, ims, ims_max,
                   calls, browser>>

\* the blocks are concatenated and the region is cut out
FinishOverlap ==
    /\ ov.state = "running"
    /\ ov.todo = {}
    /\ ov' = [ov EXCEPT
                !.state = "done",
                !.out =
                    LET b0 == BlockOf(ov.region[1], ov.chunk)
                        b1 == BlockOf(ov.region[2], ov.chunk)
                        skip == BlockLo(b0, ov.chunk) - 1
                    IN  Sub(ConcatBlocks(ov.parts, b0, b1),
                            ov.region[1] - skip, ov.region[2] - skip),
                !.parts = <<>>]
    /\ UNCHANGED <<fs, disk, globOrder, pc, err, files, desc, ims, ims_max,
                   calls, browser>>

ReleaseOverlap ==
    /\ ov.state = "done"
    /\ ov' = [ov EXCEPT !.state = "idle", !.region = <<1, 0>>, !.out = <<>>]
    /\ UNCHANGED <<fs, disk, globOrder, pc, err, files, desc, ims, ims_max,
                   calls, browser>>

\* ----------------------------------------------------------- Axis browser
\* decimal digits of k, as in 'dim %s' % k
RECURSIVE Digits(_)
Digits(k) == IF k < 10 THEN <<k>> ELSE Digits(k \div 10) \o <<k % 10>>

\* scroll_shape = ims.shape[:-2]
scroll_shape(v) == <<v.shape[1], v.shape[2]>>

\* the slider built from the abbreviation (0, s - 1) starts in the middle
SliderStart(s) == (s - 1) \div 2

\* a bounded slider takes any value as it is
SliderUnbounded(v, s) == v

\* a bounded slider caps and floors the value it is given
SliderValue(v, s) == Max2(0, Min2(v, s - 1))

\* kwargs of the callback: slider name -> slider value
Kwargs(pos) == [n \in {Digits(k - 1) : k \in DOMAIN pos} |->
                    pos[CHOOSE k \in DOMAIN pos : Digits(k - 1) = n]]

\* pos = tuple(kwargs[dim] for dim in sorted(kwargs))
PosOf(kwargs) ==
    LET names == sorted([k \in 1..Cardinality(DOMAIN kwargs) |-> Digits(k - 1)])
    IN  [i \in DOMAIN names |-> kwargs[names[i]]]

\* ims[pos]: an index in -s..-1 counts from the end, any other index
\* outside 0..s-1 raises IndexError
Indexable(v, p) ==
    \A i \in DOMAIN p : p[i] >= -v.shape[i] /\ p[i] < v.shape[i]

Normalized(v, p) ==
    [i \in DOMAIN p |-> IF p[i] < 0 THEN p[i] + v.shape[i] ELSE p[i]]

PlaneRegion(p) == [t0 |-> p[1], t1 |-> p[1], z0 |-> p[2], z1 |-> p[2]]

\* view_image(**kwargs) up to the point where imshow waits for the pixels
ViewImage(sliders, req) ==
    LET p == PosOf(Kwargs(sliders))
    IN  IF Indexable(ims, p)
        THEN /\ calls' = [calls EXCEPT !["ui"] =
                    Started(PlaneRegion(Normalized(ims, p)), FALSE)]
             /\ browser' = [browser EXCEPT !.state = "Rendering",
                                           !.pos = sliders,
                                           !.request = req,
                                           !.error = "none"]
        ELSE /\ calls' = calls
             /\ browser' = [browser EXCEPT !.state = "Idle",
                                           !.pos = sliders,
                                           !.request = req,
                                           !.error = "IndexError"]

\* browse_images(ims): interact() builds one slider per scroll axis and
\* calls view_image once with the initial slider values
Attach ==
    /\ pc = "built"
    /\ browser.state = "Detached"
    /\ ViewImage([k \in 1..2 |-> SliderStart(scroll_shape(ims)[k])], <<>>)
    /\ UNCHANGED <<fs, disk, globOrder, pc, err, files, desc, ims, ims_max, ov>>

\* a slider event is handled while the previous callback still runs
AcceptingAlways(b) == b.state \in {"Idle", "Rendering"}

\* the kernel runs one callback at a time: a slider event is handled when
\* no callback is running
Accepting(b) == b.state = "Idle"

\* the slider of one axis is given a value; a change of its (bounded) value
\* calls view_image with the values of all sliders
SetIndex(axis, value) ==
    /\ Accepting(browser)
    /\ axis \in DOMAIN browser.pos
    /\ LET new == SliderValue(value, scroll_shape(ims)[axis])
       IN  /\ new # browser.pos[axis]
           /\ ViewImage([browser.pos EXCEPT ![axis] = new], <<axis, value>>)
    /\ UNCHANGED <<fs, disk, globOrder, pc, err, files, desc, ims, ims_max, ov>>

\* plt.imshow(...) draws the computed plane and the callback returns
Render ==
    /\ browser.state = "Rendering"
    /\ calls["ui"].state = "done"
    /\ browser' = [browser EXCEPT !.state = "Idle",
                                  !.shown = calls["ui"].result,
                                  !.shownPos = PosOf(Kwargs(browser.pos))]
    /\ calls' = [calls EXCEPT !["ui"] = NoCall]
    /\ UNCHANGED <<fs, disk, globOrder, pc, err, files, desc, ims, ims_max, ov>>

\* the read raised: the callback ends with the exception, the figure keeps
\* what it showed
RenderFail ==
    /\ browser.state = "Rendering"
    /\ calls["ui"].state = "failed"
    /\ browser' = [browser EXCEPT !.state = "Idle", !.error = "IOFailure"]
    /\ calls' = [calls EXCEPT !["ui"] = NoCall]
    /\ UNCHANGED <<fs, disk, globOrder, pc, err, files, desc, ims, ims_max, ov>>

\* values a slider may be given, in range and out of range
SliderInputs == -1..(Max2(MaxFiles, NZ))

\* ------------------------------------------- browser of any array
\* an array with n scroll axes of AxisExtent each and two spatial axes
NdArray(n) == [shape |-> [k \in 1..(n + 2) |-> AxisExtent]]

\* the plane of the array at an index tuple, named by that tuple
NdPlane(p) == <<"plane", p>>

\* view_image(**kwargs) on the array of n scroll axes, up to imshow
ViewImageNd(sliders, req) ==
    LET p == PosOf(Kwargs(sliders))
    IN  IF Indexable(NdArray(Len(sliders)), p)
        THEN browser' = [browser EXCEPT !.state = "Rendering",
                                        !.pos = sliders,
                                        !.request = req,
                                        !.error = "none"]
        ELSE browser' = [browser EXCEPT !.state = "Idle",
                                        !.pos = sliders,
                                        !.request = req,
                                        !.error = "IndexError"]

\* browse_images(arr) for an array with n scroll axes: one slider per axis,
\* named 'dim 0' .. 'dim n-1', and a first call of view_image
AttachNd(n) ==
    /\ browser.state = "Detached"
    /\ ViewImageNd([k \in 1..n |-> SliderStart(AxisExtent)], <<>>)
    /\ UNCHANGED <<fs, disk, globOrder, pc, err, files, desc, ims, ims_max,
                   calls, ov>>

\* the slider of one axis is given a value
SetIndexNd(axis, value) ==
    /\ Accepting(browser)
    /\ axis \in DOMAIN browser.pos
    /\ LET new == SliderValue(value, AxisExtent)
       IN  /\ new # browser.pos[axis]
           /\ ViewImageNd([browser.pos EXCEPT ![axis] = new], <<axis, value>>)
    /\ UNCHANGED <<fs, disk, globOrder, pc, err, files, desc, ims, ims_max,
                   calls, ov>>

\* plt.imshow(ims[tuple(pos)].T, ...) draws the plane at pos
RenderNd ==
    /\ browser.state = "Rendering"
    /\ LET p == PosOf(Kwargs(browser.pos))
       IN  browser' = [browser EXCEPT
                        !.state = "Idle",
                        !.shown = NdPlane(Normalized(NdArray(Len(browser.pos)), p)),
                        !.shownPos = p]
    /\ UNCHANGED <<fs, disk, globOrder, pc, err, files, desc, ims, ims_max,
                   calls, ov>>

\* ------------------------------------------------------- specifications
InitFiles(sets, metas, bright) ==
    /\ \E S \in sets :
        /\ fs \in [S -> metas]
        /\ globOrder \in Perms(S)
        /\ IF bright
           THEN \E b \in [S -> 0..(NZ - 1)] : disk = DiskBright(fs, b)
           ELSE disk = DiskOf(fs)
    /\ pc = "start"
    /\ err = "none"
    /\ files = <<>>
    /\ desc = NoDesc
    /\ ims = NoVolume
    /\ ims_max = NoVolume
    /\ calls = [c \in Callers |-> NoCall]
    /\ browser = NoBrowser
    /\ ov = NoOverlap

NextScan == Scan \/ DescribeNone \/ DescribeOne \/ Describe \/ Build

NextCompute(cs, cap) ==
    \E c \in cs :
        \/ \E r \in Regions(ims) :
                Cardinality(Cells(r)) <= cap /\ StartCompute(c, r)
        \/ \E k \in calls[c].pending : ReadOk(c, k)
        \/ \E k \in calls[c].pending : ReadFail(c, k)
        \/ Finish(c)
        \/ Recompute(c)
        \/ Release(c)

\* the block-wise filter on any image, chunk size, radius and depth >= radius
InitOverlap ==
    /\ fs = <<>>
    /\ globOrder = <<>>
    /\ disk = <<>>
    /\ pc = "start"
    /\ err = "none"
    /\ files = <<>>
    /\ desc = NoDesc
    /\ ims = NoVolume
    /\ ims_max = NoVolume
    /\ calls = [c \in Callers |-> NoCall]
    /\ browser = NoBrowser
    /\ \E im \in [1..NPix -> 0..MaxVal], c \in 1..NPix,
          r \in 0..MaxRadius, m \in 0..MaxRadius :
            /\ r <= m
            /\ ov = [NoOverlap EXCEPT !.img = im, !.chunk = c,
                                      !.radius = r, !.depth = m]

NextOverlap ==
    \/ \E x0, x1 \in 1..NPix : StartOverlap(x0, x1)
    \/ \E b \in ov.todo : OverlapBlock(b)
    \/ FinishOverlap
    \/ ReleaseOverlap
SpecOverlap == InitOverlap /\ [][NextOverlap]_vars

\* the notebook on a dataset whose files all have the same header, with one
\* caller computing regions of any size, one call after the other
Init == InitFiles(MatchSets, {UniformMeta}, FALSE)
Next == NextScan \/ NextCompute({"c1"}, MaxFiles * NZ)
Spec == Init /\ [][Next]_vars

\* two callers computing at the same time, beside a projection being derived
NextPair ==
    \/ NextScan
    \/ NextCompute({"c1", "c2"}, MaxCells)
    \/ \E a \in ProjectionAxes : Project(a)
SpecPair == Init /\ [][NextPair]_vars

\* the scan alone, on any mix of file headers
InitScan == InitFiles(MatchSets, Metas, FALSE)
SpecScan == InitScan /\ [][NextScan]_vars

\* the viewer on the built volume
NextBrowser ==
    \/ NextScan
    \/ Attach
    \/ \E a \in 1..2, v \in SliderInputs : SetIndex(a, v)
    \/ \E k \in calls["ui"].pending : ReadOk("ui", k)
    \/ \E k \in calls["ui"].pending : ReadFail("ui", k)
    \/ Finish("ui")
    \/ Render
    \/ RenderFail
SpecBrowser == Init /\ [][NextBrowser]_vars

\* view_image blocks in imshow until compute() returns or raises: a read
\* that was dispatched ends, the gathered result is returned, and the
\* callback then draws or ends with the exception
FairBrowser ==
    /\ WF_vars(\E k \in calls["ui"].pending :
                    ReadOk("ui", k) \/ ReadFail("ui", k))
    /\ WF_vars(Finish("ui"))
    /\ WF_vars(Render)
    /\ WF_vars(RenderFail)
SpecBrowserFair == Init /\ [][NextBrowser]_vars /\ FairBrowser

\* regions of the maximum projection computed on datasets whose brightest
\* plane varies
InitProj == InitFiles(MatchSets, {UniformMeta}, TRUE)
NextProj ==
    \/ NextScan
    \/ \E a \in ProjectionAxes : Project(a)
    \/ \E r \in MaxRegions(ims_max) : StartMax("c1", r)
    \/ \E k \in calls["c1"].pending : ReadOk("c1", k)
    \/ \E k \in calls["c1"].pending : ReadFail("c1", k)
    \/ FinishMax("c1")
    \/ Release("c1")
SpecProj == InitProj /\ [][NextProj]_vars

\* the viewer on arrays of 1 .. MaxAxes scroll axes, its sliders given
\* values within their range
InitAxes ==
    /\ fs = <<>>
    /\ globOrder = <<>>
    /\ disk = <<>>
    /\ pc = "start"
    /\ err = "none"
    /\ files = <<>>
    /\ desc = NoDesc
    /\ ims = NoVolume
    /\ ims_max = NoVolume
    /\ calls = [c \in Callers |-> NoCall]
    /\ browser = NoBrowser
    /\ ov = NoOverlap
NextAxes ==
    \/ \E n \in 1..MaxAxes : AttachNd(n)
    \/ \E a \in 1..MaxAxes, v \in 0..(AxisExtent - 1) : SetIndexNd(a, v)
    \/ RenderNd
SpecAxes == InitAxes /\ [][NextAxes]_vars

TypeOK ==
    /\ pc \in {"start", "scanned", "described", "built", "failed"}
    /\ \A c \in Callers : calls[c].state \in {"idle", "running", "done", "failed"}

\* ---------------------------------------------------------------- claims
\* the t-th matched path in lexicographic order (t counted from 0): the one
\* with exactly t matched paths below it
NthFile(t) ==
    CHOOSE p \in DOMAIN fs :
        Cardinality({q \in DOMAIN fs : LexLess(q, p)}) = t

IsPlane(r) == r.t0 = r.t1 /\ r.z0 = r.z1

\* the planes of region r as they are on disk, by logical index
OnDisk(r) ==
    [t \in 0..(NT(r) - 1) |->
        [z \in 0..(NZr(r) - 1) |-> disk[NthFile(r.t0 + t)][r.z0 + z + 1]]]

\* the reads region r stands for: one per (t, z), of page z of the t-th file
ReadsOf(r) ==
    {[file |-> NthFile(k[1]), page |-> k[2], ok |-> TRUE] : k \in Cells(r)}

NoDup(q) == \A i, j \in DOMAIN q : i # j => q[i] # q[j]

\* C1: a finished compute of the single plane (t, z) holds page z of the
\* t-th matched file in lexicographic order, whatever order glob() returned,
\* and the only read it made is that page of that file
C1_SinglePlane ==
    \A c \in Callers :
        (calls[c].state = "done" /\ IsPlane(calls[c].region)) =>
            /\ calls[c].result = OnDisk(calls[c].region)
            /\ calls[c].result[0][0] =
                    disk[NthFile(calls[c].region.t0)][calls[c].region.z0 + 1]
            /\ calls[c].io =
                    <<[file |-> NthFile(calls[c].region.t0),
                       page |-> calls[c].region.z0, ok |-> TRUE]>>

\* C1 witness: glob() returned the paths in descending order and plane
\* (1, 1) has been computed
C1_Witness ==
    /\ Len(globOrder) = MaxFiles
    /\ LexLess(globOrder[2], globOrder[1])
    /\ calls["c1"].state = "done"
    /\ calls["c1"].region = [t0 |-> 1, t1 |-> 1, z0 |-> 1, z1 |-> 1]

\* C2: the reads of a compute are distinct single-page reads of cells of
\* its region, and a finished compute has read every cell of its region
\* once; the same holds when the region is computed again
C2_OneReadPerCell ==
    \A c \in Callers :
        /\ NoDup(calls[c].io)
        /\ \A i \in DOMAIN calls[c].io :
                [calls[c].io[i] EXCEPT !.ok = TRUE] \in ReadsOf(calls[c].region)
        /\ calls[c].state = "done" =>
                /\ Range(calls[c].io) = ReadsOf(calls[c].region)
                /\ Len(calls[c].io) = Cardinality(Cells(calls[c].region))

\* C2 witness: a single-plane region computed for the second time in a row
\* has again made its one read
C2_Witness ==
    /\ calls["c1"].state = "done"
    /\ calls["c1"].again
    /\ IsPlane(calls["c1"].region)
    /\ Len(calls["c1"].io) = 1

\* C5: the caller holds a result only when every read of the region has
\* completed, and then block (t, z) of the result is plane (t, z) of the
\* region, whatever the order in which the reads completed
C5_AssembledByIndex ==
    \A c \in Callers :
        /\ calls[c].state # "done" => calls[c].result = <<>>
        /\ calls[c].state = "done" =>
                /\ calls[c].result = OnDisk(calls[c].region)
                /\ Len(calls[c].io) = Cardinality(Cells(calls[c].region))
                /\ \A i \in DOMAIN calls[c].io : calls[c].io[i].ok

\* C5 witness: a region of several planes is done and the read of its last
\* plane completed first
C5_Witness ==
    /\ calls["c1"].state = "done"
    /\ Cardinality(Cells(calls["c1"].region)) = MaxFiles * NZ
    /\ calls["c1"].io[1] =
            [file |-> NthFile(calls["c1"].region.t1),
             page |-> calls["c1"].region.z1, ok |-> TRUE]

\* C6: a compute in which a read failed is failed and holds no slice, it
\* never becomes done, it makes no further read, and no cell is read twice
\* in one call
C6_FailureAborts ==
    /\ [](\A c \in Callers :
            /\ NoDup([i \in DOMAIN calls[c].io |->
                        <<calls[c].io[i].file, calls[c].io[i].page>>])
            /\ (\E i \in DOMAIN calls[c].io : ~calls[c].io[i].ok) =>
                    /\ calls[c].state = "failed"
                    /\ calls[c].result = <<>>
                    /\ calls[c].pending = {})
    /\ [][\A c \in Callers :
            calls[c].state = "failed" =>
                \/ calls'[c] = calls[c]
                \/ calls'[c] = NoCall]_vars

\* C6 witness: the second read of a region failed after the first succeeded
C6_Witness ==
    /\ calls["c1"].state = "failed"
    /\ Len(calls["c1"].io) = 2
    /\ calls["c1"].io[1].ok
    /\ ~calls["c1"].io[2].ok

Homogeneous ==
    \A p, q \in DOMAIN fs :
        fs[p].shape = fs[q].shape /\ fs[p].dtype = fs[q].dtype

\* C7: the scan succeeds only on a non-empty set of files with one shape
\* and one element type; on no file it has failed with NoFilesFound, on
\* differing headers with DatasetInconsistent, and then no volume is built
C7_ScanRejects ==
    /\ pc \in {"described", "built"} => (DOMAIN fs # {} /\ Homogeneous)
    /\ (DOMAIN fs = {} /\ pc \notin {"start", "scanned"}) =>
            (pc = "failed" /\ err = "NoFilesFound")
    /\ (~Homogeneous /\ pc \notin {"start", "scanned"}) =>
            (pc = "failed" /\ err = "DatasetInconsistent" /\ ims = NoVolume)

Overlap(r1, r2) == Cells(r1) \cap Cells(r2) # {}

\* C8: of two computes running side by side each returns the planes of its
\* own region as they are on disk, and once the volume is built neither a
\* compute nor a projection changes it, its descriptor or its file list,
\* nor a projection derived from it
C8_NoInterference ==
    /\ [](\A c \in {"c1", "c2"} :
            calls[c].state = "done" => calls[c].result = OnDisk(calls[c].region))
    /\ [][pc = "built" =>
            /\ ims' = ims
            /\ files' = files
            /\ desc' = desc
            /\ ims_max # NoVolume => ims_max' = ims_max]_vars

\* C8 witness: beside a derived projection, two computes on overlapping
\* two-plane regions are both half way through their reads
C8_Witness ==
    /\ ims_max # NoVolume
    /\ \A c \in {"c1", "c2"} :
        /\ calls[c].state = "running"
        /\ Len(calls[c].io) = 1
        /\ Cardinality(calls[c].pending) = 1
    /\ calls["c1"].region # calls["c2"].region
    /\ Overlap(calls["c1"].region, calls["c2"].region)

Extent(axis) == scroll_shape(ims)[axis]

OutOfRange(axis, value) == value < 0 \/ value > Extent(axis) - 1

\* C3: an attached browser is Idle or Rendering; a compute of the browser
\* is outstanding only while Rendering and it is the compute of the plane
\* at the current sliders; the sliders change only in a step from Idle to
\* Rendering; Rendering ends in Idle when its compute has ended; and what
\* an Idle browser shows after a successful render is the plane at the
\* current sliders
C3_IdleRendering ==
    /\ [](/\ browser.state \in {"Detached", "Idle", "Rendering"}
          /\ browser.state # "Rendering" => calls["ui"].state = "idle"
          /\ browser.state = "Rendering" =>
                /\ calls["ui"].state # "idle"
                /\ calls["ui"].region = PlaneRegion(browser.pos)
          /\ (browser.state = "Idle" /\ browser.error = "none") =>
                /\ browser.shownPos = browser.pos
                /\ browser.shown = OnDisk(PlaneRegion(browser.pos)))
    /\ [][(browser.state # "Detached" /\ browser'.pos # browser.pos) =>
            (browser.state = "Idle" /\ browser'.state = "Rendering")]_vars
    /\ [][(browser.state = "Rendering" /\ browser'.state # "Rendering") =>
            /\ browser'.state = "Idle"
            /\ calls["ui"].state \in {"done", "failed"}]_vars

\* C3 witness: the browser is Idle again after a slider was moved and the
\* plane was drawn
C3_Witness ==
    /\ browser.state = "Idle"
    /\ browser.request # <<>>
    /\ browser.error = "none"
    /\ browser.shown # <<>>
    /\ browser.shownPos = browser.pos

C10_MaxProjection ==
    /\ ims_max # NoVolume =>
            ims_max.shape = <<ims.shape[1], ims.shape[3], ims.shape[4]>>
    /\ \A c \in Callers :
        (calls[c].vol = "ims_max" /\ calls[c].state = "done") =>
            LET r == calls[c].region
            IN  /\ DOMAIN calls[c].result = 0..(r.t1 - r.t0)
                /\ \A t \in 0..(r.t1 - r.t0) :
                    /\ DOMAIN calls[c].result[t] = 0..(r.x1 - r.x0)
                    /\ \A i \in 0..(r.x1 - r.x0) :
                        calls[c].result[t][i] =
                            SetMax({disk[NthFile(r.t0 + t)][z + 1][r.x0 + i + 1] :
                                        z \in 0..(ims.shape[2] - 1)})
                /\ Range(calls[c].io) =
                        {[file |-> NthFile(t), page |-> z, ok |-> TRUE] :
                            t \in r.t0..r.t1, z \in 0..(ims.shape[2] - 1)}
                /\ Len(calls[c].io) = (r.t1 - r.t0 + 1) * ims.shape[2]

\* C10 witness: the sub-region of the last time point and the last pixel
\* has been computed on a dataset where that pixel is brightest in the
\* first plane
C10_Witness ==
    /\ calls["c1"].vol = "ims_max"
    /\ calls["c1"].state = "done"
    /\ calls["c1"].region = [t0 |-> 1, t1 |-> 1, x0 |-> 1, x1 |-> 1]
    /\ calls["c1"].result[0][0] = disk[NthFile(1)][1][2]
    /\ \A z \in 2..NZ : disk[NthFile(1)][z][2] < disk[NthFile(1)][1][2]

\* C9: whatever the chunk size, a region of the block-wise filtered image
\* computed with an overlap depth of at least the radius of the filter
\* equals the same region of the filter applied to the whole image
C9_OverlapEqualsWhole ==
    ov.state = "done" =>
        ov.out = Sub(Filter(ov.img, ov.radius), ov.region[1], ov.region[2])

\* C9 witness: the whole of a non-zero image cut into one-pixel blocks has
\* been filtered with radius 2 and depth 2, so that the overlap of the
\* second block is cut short by the border of the image
C9_Witness ==
    /\ ov.state = "done"
    /\ ov.chunk = 1
    /\ ov.radius = 2
    /\ ov.depth = 2
    /\ ov.region = <<1, NPix>>
    /\ ov.img[1] = 1
    /\ ov.out[2] # 0

\* C11: a slider given a value within its range changes the position of
\* its own axis only, and the plane an Idle browser shows is the plane of
\* the array at the positions of the sliders taken in axis order (entry k
\* of the index is the position of scroll axis k), for any number of scroll
\* axes
C11_PlaneAtSliders ==
    /\ [](browser.state = "Idle" =>
            /\ browser.error = "none"
            /\ browser.shownPos = browser.pos
            /\ browser.shown = NdPlane(browser.pos))
    /\ [][\A a \in 1..MaxAxes, v \in 0..(AxisExtent - 1) :
            SetIndexNd(a, v) =>
                browser'.pos = [browser.pos EXCEPT ![a] = v]]_vars

\* C12: when every dispatched read ends, a browser that is Rendering
\* becomes Idle again, having drawn the plane or reported IOFailure, and an
\* Idle browser always has a slider move it accepts
C12_RenderingEnds ==
    /\ (browser.state = "Rendering") ~>
            (/\ browser.state = "Idle"
             /\ \/ (browser.error = "none"
                    /\ browser.shown = OnDisk(PlaneRegion(browser.pos)))
                \/ browser.error = "IOFailure")
    /\ [](browser.state = "Idle" =>
            \E a \in 1..2, v \in SliderInputs :
                SliderValue(v, Extent(a)) # browser.pos[a])

\* C12 witness: a slider was moved, the read of its plane failed, and the
\* browser is Idle again with the failure reported
C12_Witness ==
    /\ browser.state = "Idle"
    /\ browser.request # <<>>
    /\ browser.error = "IOFailure"
    /\ calls["ui"].state = "idle"

=============================================================================
